---- MODULE Spec2Model ----
(***************************************************************************)
(* A model of the ATS field registry (State, src/src/state/State.cc) and   *)
(* of the weakly coupled multi-process controller (WeakMPC,                *)
(* src/src/pks/mpc/WeakMPC.cc).                                            *)
(*                                                                         *)
(* Objects held through Teuchos::RCP live in `heap`: a State holds the     *)
(* addresses of its density, viscosity, gravity and Field objects, so that *)
(* sharing between two registries is something the model can express.      *)
(* An Amanzi exception ends the call that raised it; `outcome` holds how   *)
(* the call that completed last ended.                                     *)
(***************************************************************************)
EXTENDS Integers, Sequences, FiniteSets, TLC

VARIABLES
  heap,     \* address -> a double <<v>> or the gravity vector <<x, y, z>>
  fieldobjs,\* address -> Field object
  states,   \* registry id -> State object, for the registries that exist
  outcome,  \* how the last completed call ended: "ok" or the exception
  pc,       \* the initialize() call in progress: [reg, nb, num_blocks], or Idle
  mpc,      \* the WeakMPC object and the position of its advance() call
  calls,    \* the sub-PK advance() invocations of the current advance() call
  vis       \* the calls the last write_vis() made on the visualization collaborator

vars == <<heap, fieldobjs, states, outcome, pc, mpc, calls, vis>>

-----------------------------------------------------------------------------
(* Bounds and input sets *)

NumCells == 3           \* cells (and faces) of the mesh
NumBlocks == 1          \* mesh blocks; also the configuration's block sections
MaxPKs == 3             \* sub-PKs of the controller

RegIds == {1, 2}        \* 1: the canonical registry, 2: a working copy
FieldNames == {"a", "b"}
Owners == {"state", "flow", "energy"}
Locations == {"CELL", "FACE"}
Dofs == {1, 2}
Vals == {0, 1}          \* values a caller writes, and indeterminate contents
SubfieldNameLists == {<<"p">>, <<"p", "q">>}
TimeSteps == {1, 2}

Unset == 0 - 1          \* a buffer entry no setter has written
Idle == [reg |-> 0, nb |-> 0, num_blocks |-> 0]
SubNames == {"p", "q"}  \* the subfield names configurations speak of

-----------------------------------------------------------------------------
(* The mesh collaborator: entity counts and block membership *)

Entities(location) == 1 .. NumCells

MeshBlockIds == 1 .. NumBlocks

\* entity e belongs to block (e % (NumBlocks + 1)); remainder 0 is no block
InBlock(e, mesh_block_id) == e % (NumBlocks + 1) = mesh_block_id

-----------------------------------------------------------------------------
(* Field *)

NewField(fieldname, location, owner, num_dofs) ==
  [ fieldname_ |-> fieldname,
    location_ |-> location,
    owner_ |-> owner,
    num_dofs_ |-> num_dofs,
    subfield_names_ |-> << >>,
    initialized_ |-> FALSE,
    io_vis_ |-> TRUE,
    data_ |-> [e \in Entities(location) |-> [d \in 1 .. num_dofs |-> Unset]] ]

\* Field::Field(const Field&): a new Field with its own buffer, same contents
CopyField(f) == f

\* Field::operator=: overwrites the values and the status of the target,
\* never its structure (name, location, dof count and buffer shape); the
\* initialized flag is a latch, which the assignment sets when the source
\* has it set and never clears
AssignField(target, f) ==
  [ target EXCEPT
      !.owner_ = f.owner_,
      !.subfield_names_ = f.subfield_names_,
      !.initialized_ = @ \/ f.initialized_,
      !.io_vis_ = f.io_vis_,
      !.data_ = [e \in DOMAIN target.data_ |->
                   [d \in DOMAIN target.data_[e] |->
                      IF e \in DOMAIN f.data_ /\ d \in DOMAIN f.data_[e]
                        THEN f.data_[e][d] ELSE target.data_[e][d]]] ]

\* Field::set_data(pk_name, const double* u): every entity gets u
FieldSetData(f, u) ==
  [f EXCEPT !.data_ = [e \in DOMAIN f.data_ |->
                         [d \in DOMAIN f.data_[e] |-> u[d]]]]

\* Field::set_data(pk_name, const double* u, mesh_block_id)
FieldSetDataBlock(f, u, mesh_block_id) ==
  [f EXCEPT !.data_ = [e \in DOMAIN f.data_ |->
                         IF InBlock(e, mesh_block_id)
                           THEN [d \in DOMAIN f.data_[e] |-> u[d]]
                           ELSE f.data_[e]]]

\* the component of vector u held by one entity (the mesh's unit normals
\* are taken along (1, 1, 1))
VectorEntry(u) == u[1] + u[2] + u[3]

\* Field::set_vector_data(pk_name, const double* u, mesh_block_id)
FieldSetVectorDataBlock(f, u, mesh_block_id) ==
  [f EXCEPT !.data_ = [e \in DOMAIN f.data_ |->
                         IF InBlock(e, mesh_block_id)
                           THEN [d \in DOMAIN f.data_[e] |-> VectorEntry(u)]
                           ELSE f.data_[e]]]

FieldSetInitialized(f) == [f EXCEPT !.initialized_ = TRUE]

FieldSetOwner(f, owner) == [f EXCEPT !.owner_ = owner]

FieldSetSubfieldNames(f, names) == [f EXCEPT !.subfield_names_ = names]

\* Field::set_io_vis(io_vis): whether write_vis() outputs the Field
FieldSetIoVis(f, io_vis) == [f EXCEPT !.io_vis_ = io_vis]

-----------------------------------------------------------------------------
(* The heap *)

\* The k-th object allocated on behalf of State object `this`: every State
\* allocates from addresses of its own, so no two allocations collide.
Addr(this, k) == Cardinality(RegIds) * (k - 1) + this

Range(seq) == {seq[i] : i \in DOMAIN seq}

\* an RCP frees its object when the last handle goes away
Collect(h, live) == [a \in DOMAIN h \cap live |-> h[a]]

HeldDoubles(sts) ==
  UNION {{sts[r].density_, sts[r].viscosity_, sts[r].gravity_} : r \in DOMAIN sts}

HeldFields(sts) == UNION {Range(sts[r].fields_) : r \in DOMAIN sts}

-----------------------------------------------------------------------------
(* State: construction *)

EmptyPList == [top |-> << >>, blocks |-> << >>]

\* State::State(parameter_list, mesh_maps): density, viscosity, time, cycle
\* and status are left uninitialized and hold whatever g was in memory
ConstructState(h, this, parameter_list, g) ==
  LET a == [k \in 1 .. 3 |-> Addr(this, k)] IN
  [ heap |-> h @@ (a[1] :> <<g>>) @@ (a[2] :> <<g>>) @@ (a[3] :> <<0, 0, 0>>),
    st |-> [ this_ |-> this,
             mesh_maps_ |-> "mesh",
             parameter_list_ |-> parameter_list,
             density_ |-> a[1],
             viscosity_ |-> a[2],
             gravity_ |-> a[3],
             field_name_map_ |-> << >>,
             fields_ |-> << >>,
             time_ |-> g,
             cycle_ |-> g,
             status_ |-> g ] ]

\* State::get_field_record(fieldname): the address of the named Field
GetFieldRecord(s, fieldname) == s.fields_[s.field_name_map_[fieldname] + 1]

-----------------------------------------------------------------------------
(* State::require_field *)

LocationError == "throw: location"
OwnedError == "throw: already owned"

\* lines 236-240: the name is new, a Field is created and indexed
RequireNew(h, s, fieldname, location, owner, num_dofs) ==
  LET a == Addr(s.this_, Len(s.fields_) + 1) IN
  [ fieldobjs |-> h @@ (a :> NewField(fieldname, location, owner, num_dofs)),
    st |-> [s EXCEPT !.field_name_map_ = @ @@ (fieldname :> Len(s.fields_)),
                     !.fields_ = Append(@, a)],
    result |-> "ok" ]

\* a request for another location moves the Field there
RequireUnowned_Relocate(h, s, fa, location, owner) ==
  [ fieldobjs |-> [h EXCEPT ![fa] = [FieldSetOwner(@, owner) EXCEPT !.location_ = location]],
    st |-> s, result |-> "ok" ]

\* the owner is recorded before the location is compared
RequireUnowned_ClaimFirst(h, s, fa, location, owner) ==
  [ fieldobjs |-> [h EXCEPT ![fa] = FieldSetOwner(@, owner)],
    st |-> s,
    result |-> IF location = h[fa].location_ THEN "ok" ELSE LocationError ]

\* lines 241-253: the Field exists and "state" owns it
RequireUnowned(h, s, fa, location, owner) ==
  IF location = h[fa].location_
    THEN [ fieldobjs |-> [h EXCEPT ![fa] = FieldSetOwner(@, owner)],
           st |-> s, result |-> "ok" ]
    ELSE [ fieldobjs |-> h, st |-> s, result |-> LocationError ]

\* the Field goes back to "state" when "state" asks for it
RequireShared_Release(h, s, fa, location) ==
  IF location # h[fa].location_
    THEN [ fieldobjs |-> h, st |-> s, result |-> LocationError ]
    ELSE [ fieldobjs |-> [h EXCEPT ![fa] = FieldSetOwner(@, "state")],
           st |-> s, result |-> "ok" ]

\* lines 254-264: the Field is owned and the requester is "state"
RequireShared(h, s, fa, location) ==
  IF location # h[fa].location_
    THEN [ fieldobjs |-> h, st |-> s, result |-> LocationError ]
    ELSE [ fieldobjs |-> h, st |-> s, result |-> "ok" ]

\* the contested request takes the Field over instead of failing
RequireContested_TakeOver(h, s, fa, owner) ==
  [ fieldobjs |-> [h EXCEPT ![fa] = FieldSetOwner(@, owner)],
    st |-> s, result |-> "ok" ]

\* the owner of the Field may ask for it again
RequireContested_OwnerAgain(h, s, fa, owner) ==
  [ fieldobjs |-> h, st |-> s,
    result |-> IF owner = h[fa].owner_ THEN "ok" ELSE OwnedError ]

\* lines 265-272: the Field is owned and the requester wants to own it
RequireContested(h, s, fa, owner) ==
  [ fieldobjs |-> h, st |-> s, result |-> OwnedError ]

\* a request with another dof count than the Field's is turned away
RequireFieldOp_CheckDofs(h, s, fieldname, location, owner, num_dofs) ==
  IF fieldname \notin DOMAIN s.field_name_map_
    THEN RequireNew(h, s, fieldname, location, owner, num_dofs)
  ELSE IF h[GetFieldRecord(s, fieldname)].num_dofs_ # num_dofs
    THEN [ fieldobjs |-> h, st |-> s, result |-> LocationError ]
  ELSE IF h[GetFieldRecord(s, fieldname)].owner_ = "state"
    THEN RequireUnowned(h, s, GetFieldRecord(s, fieldname), location, owner)
  ELSE IF owner = "state"
    THEN RequireShared(h, s, GetFieldRecord(s, fieldname), location)
  ELSE RequireContested(h, s, GetFieldRecord(s, fieldname), owner)

RequireFieldOp(h, s, fieldname, location, owner, num_dofs) ==
  IF fieldname \notin DOMAIN s.field_name_map_
    THEN RequireNew(h, s, fieldname, location, owner, num_dofs)
  ELSE IF h[GetFieldRecord(s, fieldname)].owner_ = "state"
    THEN RequireUnowned(h, s, GetFieldRecord(s, fieldname), location, owner)
  ELSE IF owner = "state"
    THEN RequireShared(h, s, GetFieldRecord(s, fieldname), location)
  ELSE RequireContested(h, s, GetFieldRecord(s, fieldname), owner)

RequireField(r, fieldname, location, owner, num_dofs) ==
  /\ pc = Idle
  /\ ~mpc.active
  /\ r \in DOMAIN states
  /\ LET out == RequireFieldOp(fieldobjs, states[r], fieldname, location, owner, num_dofs) IN
       /\ fieldobjs' = out.fieldobjs
       /\ states' = [states EXCEPT ![r] = out.st]
       /\ outcome' = out.result
  /\ UNCHANGED <<heap, pc, mpc, calls, vis>>

-----------------------------------------------------------------------------
(* State: copy construction, assignment, destruction *)

IncompatibleError == "throw: incompatible"

\* lines 72-75: one new Field per Field of s, in the same order
\* the copy takes the handles of s instead of creating Fields of its own
CopyFields_Shared(fo, this, src, lcv) == [fieldobjs |-> fo, fields_ |-> src]

RECURSIVE CopyFields(_, _, _, _)
CopyFields(fo, this, src, lcv) ==
  IF lcv > Len(src) THEN [fieldobjs |-> fo, fields_ |-> << >>]
  ELSE LET a == Addr(this, lcv)
           rest == CopyFields(fo @@ (a :> CopyField(fo[src[lcv]])), this, src, lcv + 1)
       IN [fieldobjs |-> rest.fieldobjs, fields_ |-> <<a>> \o rest.fields_]

\* State::State(const State& s); parameter_list_ is default-constructed
CopyStateOp(h, fo, this, s) ==
  LET a == [k \in 1 .. 3 |-> Addr(this, k)]
      cf == CopyFields(fo, this, s.fields_, 1)
  IN [ heap |-> h @@ (a[1] :> h[s.density_]) @@ (a[2] :> h[s.viscosity_])
                  @@ (a[3] :> h[s.gravity_]),
       fieldobjs |-> cf.fieldobjs,
       st |-> [ this_ |-> this,
                mesh_maps_ |-> s.mesh_maps_,
                parameter_list_ |-> EmptyPList,
                density_ |-> a[1],
                viscosity_ |-> a[2],
                gravity_ |-> a[3],
                field_name_map_ |-> s.field_name_map_,
                fields_ |-> cf.fields_,
                time_ |-> s.time_,
                cycle_ |-> s.cycle_,
                status_ |-> s.status_ ] ]

\* lines 102-104: *(fields_[lcv]) = *(s.fields_[lcv]), one after the other
RECURSIVE AssignFields(_, _, _, _)
AssignFields(fo, dst, src, lcv) ==
  IF lcv > Len(src) THEN fo
  ELSE AssignFields([fo EXCEPT ![dst[lcv]] = AssignField(@, fo[src[lcv]])],
                    dst, src, lcv + 1)

\* the clock of the target is left as it is
AssignBody_KeepClock(h, fo, this, s) ==
  LET h1 == [h EXCEPT ![this.density_] = h[s.density_]]
      h2 == [h1 EXCEPT ![this.viscosity_] = h1[s.viscosity_]]
      h3 == [h2 EXCEPT ![this.gravity_] = h2[s.gravity_]]
  IN [ heap |-> h3,
       fieldobjs |-> AssignFields(fo, this.fields_, s.fields_, 1),
       st |-> [this EXCEPT !.mesh_maps_ = s.mesh_maps_,
                           !.field_name_map_ = s.field_name_map_,
                           !.status_ = s.status_],
       result |-> "ok" ]

\* lines 94-109: the body of the assignment, one statement after the other
AssignBody(h, fo, this, s) ==
  LET h1 == [h EXCEPT ![this.density_] = h[s.density_]]
      h2 == [h1 EXCEPT ![this.viscosity_] = h1[s.viscosity_]]
      h3 == [h2 EXCEPT ![this.gravity_] = h2[s.gravity_]]
  IN [ heap |-> h3,
       fieldobjs |-> AssignFields(fo, this.fields_, s.fields_, 1),
       st |-> [this EXCEPT !.mesh_maps_ = s.mesh_maps_,
                           !.field_name_map_ = s.field_name_map_,
                           !.time_ = s.time_,
                           !.cycle_ = s.cycle_,
                           !.status_ = s.status_],
       result |-> "ok" ]

\* the compatibility test comes after the scalars have been overwritten
AssignStateOp_LateCheck(h, fo, this, s) ==
  IF Len(this.fields_) # Len(s.fields_)
    THEN [ heap |-> [h EXCEPT ![this.density_] = h[s.density_],
                              ![this.viscosity_] = h[s.viscosity_],
                              ![this.gravity_] = h[s.gravity_]],
           fieldobjs |-> fo, st |-> this, result |-> IncompatibleError ]
    ELSE AssignBody(h, fo, this, s)

\* State::operator=
AssignStateOp(h, fo, this, s) ==
  IF Len(this.fields_) # Len(s.fields_)
    THEN [heap |-> h, fieldobjs |-> fo, st |-> this, result |-> IncompatibleError]
  ELSE IF this.this_ # s.this_
    THEN AssignBody(h, fo, this, s)
  ELSE [heap |-> h, fieldobjs |-> fo, st |-> this, result |-> "ok"]

CopyConstruct(r, from) ==
  /\ pc = Idle
  /\ ~mpc.active
  /\ from \in DOMAIN states
  /\ r \notin DOMAIN states
  /\ LET out == CopyStateOp(heap, fieldobjs, r, states[from]) IN
       /\ heap' = out.heap
       /\ fieldobjs' = out.fieldobjs
       /\ states' = states @@ (r :> out.st)
  /\ outcome' = "ok"
  /\ UNCHANGED <<pc, mpc, calls, vis>>

Assign(r, from) ==
  /\ pc = Idle
  /\ ~mpc.active
  /\ r \in DOMAIN states
  /\ from \in DOMAIN states
  /\ LET out == AssignStateOp(heap, fieldobjs, states[r], states[from]) IN
       /\ heap' = out.heap
       /\ fieldobjs' = out.fieldobjs
       /\ states' = [states EXCEPT ![r] = out.st]
       /\ outcome' = out.result
  /\ UNCHANGED <<pc, mpc, calls, vis>>

\* the working copy goes out of scope
Discard(r) ==
  /\ pc = Idle
  /\ ~mpc.active
  /\ r \in DOMAIN states
  /\ LET rest == [x \in DOMAIN states \ {r} |-> states[x]] IN
       /\ states' = rest
       /\ heap' = Collect(heap, HeldDoubles(rest))
       /\ fieldobjs' = Collect(fieldobjs, HeldFields(rest))
  /\ outcome' = "ok"
  /\ UNCHANGED <<pc, mpc, calls, vis>>

-----------------------------------------------------------------------------
(* State: setters *)

\* State::set_field(fieldname, pk_name, const double* u), called by the owner
SetFieldOp(fo, s, fieldname, u) ==
  [fo EXCEPT ![GetFieldRecord(s, fieldname)] = FieldSetData(@, u)]

SetDensityOp(h, s, wd) == [h EXCEPT ![s.density_] = <<wd>>]

SetViscosityOp(h, s, mu) == [h EXCEPT ![s.viscosity_] = <<mu>>]

SetGravityOp(h, s, g) == [h EXCEPT ![s.gravity_] = <<g[1], g[2], g[3]>>]

\* State::set_time and State::set_cycle, as the driver calls them together
\* when it moves the clock
SetClockOp(s, new_time, new_cycle) ==
  [s EXCEPT !.time_ = new_time, !.cycle_ = new_cycle]

Setter(r) ==
  /\ pc = Idle
  /\ ~mpc.active
  /\ r \in DOMAIN states
  /\ outcome' = "ok"
  /\ UNCHANGED <<pc, mpc, calls, vis>>

SetField(r, fieldname, v) ==
  /\ Setter(r)
  /\ fieldname \in DOMAIN states[r].field_name_map_
  /\ fieldobjs' = SetFieldOp(fieldobjs, states[r], fieldname, [d \in Dofs |-> v])
  /\ UNCHANGED <<heap, states>>

\* set_gravity, set_density and set_viscosity called in a row, the way
\* lines 135-145 call them
SetGlobals(r, g, wd, mu) ==
  /\ Setter(r)
  /\ heap' = SetViscosityOp(SetDensityOp(SetGravityOp(heap, states[r], g),
                                         states[r], wd), states[r], mu)
  /\ UNCHANGED <<fieldobjs, states>>

SetClock(r, new_time, new_cycle) ==
  /\ Setter(r)
  /\ states' = [states EXCEPT ![r] = SetClockOp(@, new_time, new_cycle)]
  /\ UNCHANGED <<heap, fieldobjs>>

\* State::set_vector_field(fieldname, pk_name, const double* u, mesh_block_id)
SetVectorFieldOp(fo, s, fieldname, u, mesh_block_id) ==
  [fo EXCEPT ![GetFieldRecord(s, fieldname)] =
                FieldSetVectorDataBlock(@, u, mesh_block_id)]

SetVectorField(r, fieldname, u, mesh_block_id) ==
  /\ Setter(r)
  /\ fieldname \in DOMAIN states[r].field_name_map_
  /\ fieldobjs' = SetVectorFieldOp(fieldobjs, states[r], fieldname, u, mesh_block_id)
  /\ UNCHANGED <<heap, states>>

-----------------------------------------------------------------------------
(* State::set_subfield_names, State::check_all_initialized *)

SetSubfieldNamesOp(fo, s, fieldname, subfield_names) ==
  [fo EXCEPT ![GetFieldRecord(s, fieldname)] = FieldSetSubfieldNames(@, subfield_names)]

SetSubfieldNames(r, fieldname, subfield_names) ==
  /\ Setter(r)
  /\ fieldname \in DOMAIN states[r].field_name_map_
  /\ fieldobjs' = SetSubfieldNamesOp(fieldobjs, states[r], fieldname, subfield_names)
  /\ UNCHANGED <<heap, states>>

\* the loop stops at the first Field it looks at, whatever its flag
CheckFrom_FirstOnly(fo, fields, i) ==
  IF i > Len(fields) THEN TRUE ELSE fo[fields[i]].initialized_

\* lines 121-125: the loop from position i on
RECURSIVE CheckFrom(_, _, _)
CheckFrom(fo, fields, i) ==
  IF i > Len(fields) THEN TRUE
  ELSE IF ~fo[fields[i]].initialized_ THEN FALSE
  ELSE CheckFrom(fo, fields, i + 1)

CheckAllInitialized(fo, s) == CheckFrom(fo, s.fields_, 1)

-----------------------------------------------------------------------------
(* State::initialize_from_parameter_list *)

ConfigError == "throw: parameter"

IsParameter(plist, name) == name \in DOMAIN plist

\* parameter_list_.sublist("Mesh block nb"): empty when it is not there
Sublist(parameter_list, nb) ==
  IF nb \in DOMAIN parameter_list.blocks THEN parameter_list.blocks[nb] ELSE << >>

\* lines 131-146: gravity is required, density and viscosity are optional
ReadGlobals(h, s) ==
  LET top == s.parameter_list_.top IN
  IF ~(IsParameter(top, "Gravity x") /\ IsParameter(top, "Gravity y")
         /\ IsParameter(top, "Gravity z"))
    THEN [heap |-> h, result |-> ConfigError]
  ELSE
    LET h1 == SetGravityOp(h, s, <<top["Gravity x"], top["Gravity y"], top["Gravity z"]>>)
        h2 == IF IsParameter(top, "Constant water density")
                THEN SetDensityOp(h1, s, top["Constant water density"]) ELSE h1
        h3 == IF IsParameter(top, "Constant viscosity")
                THEN SetViscosityOp(h2, s, top["Constant viscosity"]) ELSE h2
    IN [heap |-> h3, result |-> "ok"]

\* lines 155-165 and 194-205: whether every subfield has its constant
GotThemAll(plist, subfield_names) ==
  \A lcv \in DOMAIN subfield_names : IsParameter(plist, "Constant " \o subfield_names[lcv])

\* the values u[lcv] read on the way
ConstantsOf(plist, subfield_names) ==
  [lcv \in DOMAIN subfield_names |-> plist["Constant " \o subfield_names[lcv]]]

\* the field is flagged although a constant is missing
CellGlobal_FlagAnyway(f, top) ==
  IF f.location_ = "CELL" /\ Len(f.subfield_names_) = f.num_dofs_
    THEN IF GotThemAll(top, f.subfield_names_)
           THEN FieldSetInitialized(FieldSetData(f, ConstantsOf(top, f.subfield_names_)))
           ELSE FieldSetInitialized(f)
    ELSE f

\* lines 151-173: one Field in the global pass
CellGlobal(f, top) ==
  IF f.location_ = "CELL" /\ Len(f.subfield_names_) = f.num_dofs_
       /\ GotThemAll(top, f.subfield_names_)
    THEN FieldSetInitialized(FieldSetData(f, ConstantsOf(top, f.subfield_names_)))
    ELSE f

\* lines 149-174: the global pass over the Fields, in order
RECURSIVE GlobalPass(_, _, _, _)
GlobalPass(fo, fields, top, i) ==
  IF i > Len(fields) THEN fo
  ELSE GlobalPass([fo EXCEPT ![fields[i]] = CellGlobal(@, top)], fields, top, i + 1)

\* the block's values are written to every cell of the mesh
CellBlock_WholeMesh(f, sublist, mesh_block_id) ==
  IF f.location_ = "CELL" /\ Len(f.subfield_names_) = f.num_dofs_
       /\ GotThemAll(sublist, f.subfield_names_)
    THEN FieldSetInitialized(FieldSetData(f, ConstantsOf(sublist, f.subfield_names_)))
    ELSE f

\* a block section without the constants takes the flag back
CellBlock_Unflag(f, sublist, mesh_block_id) ==
  IF f.location_ = "CELL" /\ Len(f.subfield_names_) = f.num_dofs_
    THEN IF GotThemAll(sublist, f.subfield_names_)
           THEN FieldSetInitialized(
                  FieldSetDataBlock(f, ConstantsOf(sublist, f.subfield_names_), mesh_block_id))
           ELSE [f EXCEPT !.initialized_ = FALSE]
    ELSE f

\* lines 188-212: one cell Field in a block pass
CellBlock(f, sublist, mesh_block_id) ==
  IF f.location_ = "CELL" /\ Len(f.subfield_names_) = f.num_dofs_
       /\ GotThemAll(sublist, f.subfield_names_)
    THEN FieldSetInitialized(
           FieldSetDataBlock(f, ConstantsOf(sublist, f.subfield_names_), mesh_block_id))
    ELSE f

\* lines 213-229: one face Field in a block pass; the y and z components
\* are read without a test
FaceBlock(f, sublist, mesh_block_id) ==
  LET key == "Constant " \o f.fieldname_ IN
  IF f.num_dofs_ = 1 /\ IsParameter(sublist, key \o " x")
    THEN IF IsParameter(sublist, key \o " y") /\ IsParameter(sublist, key \o " z")
           THEN [ field |-> FieldSetInitialized(FieldSetVectorDataBlock(f,
                              <<sublist[key \o " x"], sublist[key \o " y"],
                                sublist[key \o " z"]>>, mesh_block_id)),
                  result |-> "ok" ]
           ELSE [field |-> f, result |-> ConfigError]
    ELSE [field |-> f, result |-> "ok"]

\* lines 185-230: the Fields of one block pass, in order, up to a throw
RECURSIVE BlockPass(_, _, _, _, _)
BlockPass(fo, fields, sublist, mesh_block_id, i) ==
  IF i > Len(fields) THEN [fieldobjs |-> fo, result |-> "ok"]
  ELSE LET f == fo[fields[i]] IN
    IF f.location_ = "CELL"
      THEN BlockPass([fo EXCEPT ![fields[i]] = CellBlock(f, sublist, mesh_block_id)],
                     fields, sublist, mesh_block_id, i + 1)
    ELSE IF f.location_ = "FACE"
      THEN LET out == FaceBlock(f, sublist, mesh_block_id) IN
           IF out.result # "ok" THEN [fieldobjs |-> fo, result |-> out.result]
           ELSE BlockPass([fo EXCEPT ![fields[i]] = out.field],
                          fields, sublist, mesh_block_id, i + 1)
    ELSE BlockPass(fo, fields, sublist, mesh_block_id, i + 1)

\* lines 131-176: the scalars, the global pass and the number of blocks
InitializeBegin(r) ==
  /\ pc = Idle
  /\ ~mpc.active
  /\ r \in DOMAIN states
  /\ LET s == states[r]
         g == ReadGlobals(heap, s)
     IN /\ heap' = g.heap
        /\ IF g.result # "ok"
             THEN /\ outcome' = g.result
                  /\ UNCHANGED <<fieldobjs, pc>>
             ELSE /\ fieldobjs' = GlobalPass(fieldobjs, s.fields_, s.parameter_list_.top, 1)
                  /\ IF ~IsParameter(s.parameter_list_.top, "Number of mesh blocks")
                       THEN outcome' = ConfigError /\ UNCHANGED pc
                     ELSE IF s.parameter_list_.top["Number of mesh blocks"] < 1
                       THEN outcome' = "ok" /\ UNCHANGED pc
                     ELSE /\ UNCHANGED outcome
                          /\ pc' = [ reg |-> r, nb |-> 1,
                                     num_blocks |->
                                       s.parameter_list_.top["Number of mesh blocks"] ]
  /\ UNCHANGED <<states, mpc, calls, vis>>

\* lines 177-231: the pass of block section nb
InitializeBlock ==
  /\ pc # Idle
  /\ LET s == states[pc.reg]
         sublist == Sublist(s.parameter_list_, pc.nb)
     IN IF ~IsParameter(sublist, "Mesh block ID")
          THEN /\ outcome' = ConfigError
               /\ pc' = Idle
               /\ UNCHANGED fieldobjs
          ELSE LET out == BlockPass(fieldobjs, s.fields_, sublist,
                                    sublist["Mesh block ID"], 1)
               IN /\ fieldobjs' = out.fieldobjs
                  /\ IF out.result # "ok"
                       THEN outcome' = out.result /\ pc' = Idle
                     ELSE IF pc.nb = pc.num_blocks
                       THEN outcome' = "ok" /\ pc' = Idle
                     ELSE UNCHANGED outcome /\ pc' = [pc EXCEPT !.nb = @ + 1]
  /\ UNCHANGED <<heap, states, mpc, calls, vis>>

-----------------------------------------------------------------------------
(* State::write_vis *)

\* a caller flags or unflags a Field of the registry for output
SetIoVis(r, fieldname, io_vis) ==
  /\ Setter(r)
  /\ fieldname \in DOMAIN states[r].field_name_map_
  /\ fieldobjs' = [fieldobjs EXCEPT ![GetFieldRecord(states[r], fieldname)] =
                                      FieldSetIoVis(@, io_vis)]
  /\ UNCHANGED <<heap, states>>

\* every Field is written, flagged or not
WriteVectors_All(fo, fields, i) ==
  [k \in DOMAIN fields |->
     <<"write_vector", fo[fields[k]].data_, fo[fields[k]].subfield_names_>>]

\* lines 353-359: the write_vector calls for the Fields from position i on
RECURSIVE WriteVectors(_, _, _)
WriteVectors(fo, fields, i) ==
  IF i > Len(fields) THEN << >>
  ELSE (IF fo[fields[i]].io_vis_
          THEN << <<"write_vector", fo[fields[i]].data_, fo[fields[i]].subfield_names_>> >>
          ELSE << >>)
       \o WriteVectors(fo, fields, i + 1)

\* lines 348-360: the calls write_vis makes after dump_requested(cycle) and
\* is_disabled() returned what they did
WriteVisOp(fo, s, dump_requested, is_disabled) ==
  IF dump_requested /\ ~is_disabled
    THEN << <<"create_timestep", s.time_, s.cycle_>> >> \o WriteVectors(fo, s.fields_, 1)
    ELSE << >>

WriteVis(r, dump_requested, is_disabled) ==
  /\ pc = Idle
  /\ ~mpc.active
  /\ r \in DOMAIN states
  /\ vis' = WriteVisOp(fieldobjs, states[r], dump_requested, is_disabled)
  /\ outcome' = "ok"
  /\ UNCHANGED <<heap, fieldobjs, states, pc, mpc, calls>>

-----------------------------------------------------------------------------
(* Initial state *)

IdleMPC == [sub_pks_ |-> << >>, active |-> FALSE, pk |-> 1, fail |-> FALSE,
            dt |-> 0, returned |-> "none"]

InitWith(parameter_list, sub_pks) ==
  \E g \in Vals :
    LET c == ConstructState(<< >>, 1, parameter_list, g) IN
      /\ heap = c.heap
      /\ fieldobjs = << >>
      /\ states = (1 :> c.st)
      /\ outcome = "ok"
      /\ pc = Idle
      /\ mpc = [IdleMPC EXCEPT !.sub_pks_ = sub_pks]
      /\ calls = << >>
      /\ vis = << >>

-----------------------------------------------------------------------------
(* WeakMPC::advance *)

\* the iteration starts at the second sub-PK
AdvanceBegin_SkipFirst(m, dt) ==
  [m EXCEPT !.active = TRUE, !.pk = 2, !.fail = FALSE, !.dt = dt,
            !.returned = "none"]

\* line 30 and the loop header of line 31
AdvanceBegin(m, dt) ==
  [m EXCEPT !.active = TRUE, !.pk = 1, !.fail = FALSE, !.dt = dt,
            !.returned = "none"]

\* the loop goes on after a failing sub-PK
AdvanceLoopBody_NoStop(m, f) == [m EXCEPT !.fail = f, !.pk = @ + 1]

\* lines 33-36: f is what sub_pks_[pk]->advance(dt) returned
AdvanceLoopBody(m, f) ==
  IF f THEN [m EXCEPT !.fail = f, !.active = FALSE, !.returned = "failure"]
       ELSE [m EXCEPT !.fail = f, !.pk = @ + 1]

\* line 38
AdvanceEnd(m) ==
  [m EXCEPT !.active = FALSE,
            !.returned = IF m.fail THEN "failure" ELSE "success"]

AdvanceCall(dt) ==
  /\ pc = Idle
  /\ ~mpc.active
  /\ mpc' = AdvanceBegin(mpc, dt)
  /\ calls' = << >>
  /\ UNCHANGED <<heap, fieldobjs, states, outcome, pc, vis>>

\* one iteration: the sub-PK at the iterator is advanced and reports f
AdvanceIter(f) ==
  /\ mpc.active
  /\ mpc.pk <= Len(mpc.sub_pks_)
  /\ calls' = Append(calls, [pk |-> mpc.sub_pks_[mpc.pk], dt |-> mpc.dt, fail |-> f])
  /\ mpc' = AdvanceLoopBody(mpc, f)
  /\ UNCHANGED <<heap, fieldobjs, states, outcome, pc, vis>>

AdvanceReturn ==
  /\ mpc.active
  /\ mpc.pk > Len(mpc.sub_pks_)
  /\ mpc' = AdvanceEnd(mpc)
  /\ UNCHANGED <<heap, fieldobjs, states, outcome, pc, calls, vis>>

\* what sub-PK pk does to the registry in its advance(dt): it writes its
\* number into every entry of the field `wrote` names, or writes nothing
PKAdvance(fo, s, pk, wrote) ==
  IF wrote = << >> THEN fo
  ELSE SetFieldOp(fo, s, wrote[1], [d \in Dofs |-> pk])

\* the fields this call's sub-PKs have written
RECURSIVE WrittenBy(_)
WrittenBy(log) ==
  IF log = << >> THEN {}
  ELSE Range(log[Len(log)].wrote) \cup WrittenBy(SubSeq(log, 1, Len(log) - 1))

\* a failing sub-PK makes the controller blank what the call has written
AdvanceLoopRegistry_Undo(after, log, f) ==
  IF f
    THEN [a \in DOMAIN after |->
            IF after[a].fieldname_ \in WrittenBy(log)
              THEN FieldSetData(after[a], [d \in Dofs |-> Unset])
              ELSE after[a]]
    ELSE after

\* lines 33-36: the registry after the loop body, given the registry
\* `after` the sub-PK's advance(dt): the controller does nothing to it
AdvanceLoopRegistry(after, log, f) == after

\* one iteration in which the sub-PK at the iterator writes to the
\* registry it was constructed with (registry 1) and reports f
AdvanceIterWriting(f, wrote) ==
  /\ mpc.active
  /\ mpc.pk <= Len(mpc.sub_pks_)
  /\ Range(wrote) \subseteq DOMAIN states[1].field_name_map_
  /\ LET log == Append(calls, [pk |-> mpc.sub_pks_[mpc.pk], dt |-> mpc.dt,
                                fail |-> f, wrote |-> wrote])
     IN /\ calls' = log
        /\ fieldobjs' = AdvanceLoopRegistry(
                           PKAdvance(fieldobjs, states[1], mpc.sub_pks_[mpc.pk], wrote),
                           log, f)
  /\ mpc' = AdvanceLoopBody(mpc, f)
  /\ UNCHANGED <<heap, states, outcome, pc, vis>>

\* the sequences of distinct PKs the controller may be built with
PKSequences ==
  UNION {{q \in [1 .. n -> 1 .. MaxPKs] : \A i, j \in 1 .. n : i # j => q[i] # q[j]}
           : n \in 0 .. MaxPKs}

InitMPC == \E q \in PKSequences : InitWith(EmptyPList, q)

NextMPC ==
  \/ \E dt \in TimeSteps : AdvanceCall(dt)
  \/ \E f \in BOOLEAN : AdvanceIter(f)
  \/ AdvanceReturn

SpecMPC == InitMPC /\ [][NextMPC]_vars

-----------------------------------------------------------------------------
(* Registration of fields on the canonical registry *)

NextReq ==
  \E name \in FieldNames, loc \in Locations, owner \in Owners, n \in Dofs :
    RequireField(1, name, loc, owner, n)

SpecReq == InitWith(EmptyPList, << >>) /\ [][NextReq]_vars

-----------------------------------------------------------------------------
(* A canonical registry and its working copy: snapshot, mutation, rollback *)

CopyFieldArgs == {<<"a", "CELL">>, <<"b", "CELL">>, <<"b", "FACE">>}

\* a value mutation of registry r
Mutation(r) ==
  \/ \E name \in FieldNames : SetField(r, name, 1)
  \/ SetGlobals(r, <<0, 0, 1>>, 2, 3)
  \/ SetClock(r, 1, 2)

NextCopy ==
  \/ \E r \in RegIds, fa \in CopyFieldArgs : RequireField(r, fa[1], fa[2], "state", 1)
  \/ CopyConstruct(2, 1)
  \/ Discard(2)
  \/ \E r, from \in RegIds : Assign(r, from)
  \/ \E r \in RegIds : Mutation(r)

SpecCopy == InitWith(EmptyPList, << >>) /\ [][NextCopy]_vars

-----------------------------------------------------------------------------
(* C1: every require_field call ends as the arbitration table says: a new   *)
(* name is created with the requested owner; a field of "state" goes to a  *)
(* requester other than "state" when the location matches and the call     *)
(* fails when it does not; an owned field stays with its owner when        *)
(* "state" asks with the same location and the call fails with another     *)
(* location; a second claimant always fails. Owners change in no other way.*)

OwnerIn(fo, sts, r, name) == fo[GetFieldRecord(sts[r], name)].owner_

C1_Row(r, name, loc, owner) ==
  LET existed == name \in DOMAIN states[r].field_name_map_
      cur == fieldobjs[GetFieldRecord(states[r], name)]
      now == OwnerIn(fieldobjs', states', r, name)
  IN
  IF ~existed
    THEN /\ outcome' = "ok"
         /\ name \in DOMAIN states'[r].field_name_map_
         /\ now = owner
  ELSE IF cur.owner_ = "state" /\ loc # cur.location_
    THEN outcome' = LocationError /\ now = "state"
  ELSE IF cur.owner_ = "state" /\ owner # "state"
    THEN outcome' = "ok" /\ now = owner
  ELSE IF cur.owner_ # "state" /\ owner = "state" /\ loc = cur.location_
    THEN outcome' = "ok" /\ now = cur.owner_
  ELSE IF cur.owner_ # "state" /\ owner = "state"
    THEN outcome' = LocationError /\ now = cur.owner_
  ELSE IF cur.owner_ # "state" /\ owner # cur.owner_
    THEN outcome' = OwnedError /\ now = cur.owner_
  ELSE TRUE

C1_Step ==
  \A r \in RegIds, name \in FieldNames, loc \in Locations, owner \in Owners, n \in Dofs :
    RequireField(r, name, loc, owner, n) =>
      /\ C1_Row(r, name, loc, owner)
      /\ \A other \in DOMAIN states[r].field_name_map_ \ {name} :
           OwnerIn(fieldobjs', states', r, other) = OwnerIn(fieldobjs, states, r, other)

C1_ArbitrationTable == [][C1_Step]_vars

\* a second claimant has been turned away: the other PK still owns the field
C1_Witness ==
  /\ outcome = OwnedError
  /\ \E name \in DOMAIN states[1].field_name_map_ :
       OwnerIn(fieldobjs, states, 1, name) = "flow"

-----------------------------------------------------------------------------
(* C2: advance(dt) calls the sub-PKs in declared order, each at most once, *)
(* up to and including the first that reports failure; nothing is invoked  *)
(* after it and the call returns failure.                                  *)

C2_StopAtFirstFailure ==
  /\ Len(calls) <= Len(mpc.sub_pks_)
  /\ \A i \in DOMAIN calls :
       /\ calls[i].pk = mpc.sub_pks_[i]
       /\ calls[i].fail => i = Len(calls)
  /\ (calls # << >> /\ calls[Len(calls)].fail) =>
       ~mpc.active /\ mpc.returned = "failure"

\* the second of three sub-PKs failed
C2_Witness ==
  /\ Len(mpc.sub_pks_) = 3
  /\ Len(calls) = 2
  /\ calls[2].fail
  /\ mpc.returned = "failure"

-----------------------------------------------------------------------------
(* C3: advance(dt) returns success exactly when every sub-PK's advance(dt) *)
(* returned success; each sub-PK was then invoked exactly once, in declared*)
(* order, with the same dt. With no sub-PK it returns success and invokes  *)
(* nothing.                                                                *)

C3_SuccessIffAllSucceed ==
  mpc.returned # "none" =>
    /\ mpc.returned = "success" <=>
         /\ Len(calls) = Len(mpc.sub_pks_)
         /\ \A i \in DOMAIN calls : ~calls[i].fail
    /\ mpc.returned = "success" =>
         \A i \in DOMAIN calls :
           calls[i].pk = mpc.sub_pks_[i] /\ calls[i].dt = mpc.dt
    /\ mpc.sub_pks_ = << >> => mpc.returned = "success" /\ calls = << >>

\* three sub-PKs were advanced and the call returned success
C3_Witness ==
  /\ Len(mpc.sub_pks_) = 3
  /\ Len(calls) = 3
  /\ mpc.returned = "success"

-----------------------------------------------------------------------------
(* Initialization of the canonical registry from a configuration *)

\* the value the section (0: global, nb: block section nb) gives a subfield
ConstValue(section, name) == 10 * section + (IF name = "p" THEN 1 ELSE 2)

ConstSection(section, names) ==
  [k \in {"Constant " \o n : n \in names} |->
     ConstValue(section, CHOOSE n \in names : k = "Constant " \o n)]

\* the "Constant b x/y/z" entries of a block section
FaceEntries(option) ==
  IF option = "full"
    THEN ("Constant b x" :> 1) @@ ("Constant b y" :> 2) @@ ("Constant b z" :> 3)
  ELSE IF option = "x only" THEN ("Constant b x" :> 1)
  ELSE << >>

\* section nb describes mesh block NumBlocks + 1 - nb
MakePList(global_names, block_names, face_option) ==
  [ top |-> ("Gravity x" :> 0) @@ ("Gravity y" :> 0) @@ ("Gravity z" :> 9)
              @@ ("Constant water density" :> 5)
              @@ ("Number of mesh blocks" :> NumBlocks)
              @@ ConstSection(0, global_names),
    blocks |-> [nb \in 1 .. NumBlocks |->
                  ("Mesh block ID" :> NumBlocks + 1 - nb)
                    @@ ConstSection(nb, block_names[nb])
                    @@ (IF nb = 1 THEN FaceEntries(face_option) ELSE << >>)] ]

Configurations ==
  {EmptyPList} \cup
  { MakePList(g, b, f) : g \in SUBSET SubNames,
                         b \in [1 .. NumBlocks -> SUBSET SubNames],
                         f \in {"none", "full", "x only"} }

InitInit == \E plist \in Configurations : InitWith(plist, << >>)

NextInit ==
  \/ \E name \in FieldNames, loc \in Locations, n \in Dofs :
       RequireField(1, name, loc, "state", n)
  \/ \E name \in FieldNames, names \in SubfieldNameLists :
       SetSubfieldNames(1, name, names)
  \/ InitializeBegin(1)
  \/ InitializeBlock

SpecInit == InitInit /\ [][NextInit]_vars

-----------------------------------------------------------------------------
(* What a registry holds *)

\* the Field objects of registry r, in collection order
FieldsOf(fo, sts, r) == [i \in DOMAIN sts[r].fields_ |-> fo[sts[r].fields_[i]]]

\* the values of registry r: global scalars, clock and field buffers
Values(h, fo, sts, r) ==
  [ density |-> h[sts[r].density_],
    viscosity |-> h[sts[r].viscosity_],
    gravity |-> h[sts[r].gravity_],
    time |-> sts[r].time_,
    cycle |-> sts[r].cycle_,
    data |-> [i \in DOMAIN sts[r].fields_ |-> fo[sts[r].fields_[i]].data_] ]

\* the schema of registry r: names, locations and dof counts, in order
Schema(fo, sts, r) ==
  [i \in DOMAIN sts[r].fields_ |->
     <<fo[sts[r].fields_[i]].fieldname_, fo[sts[r].fields_[i]].location_,
       fo[sts[r].fields_[i]].num_dofs_>>]

-----------------------------------------------------------------------------
(* C4: once a registry has been copy-constructed from another, a mutation  *)
(* of field values, density, viscosity, gravity or time/cycle in one of    *)
(* them leaves the values of the other as they were, and discarding the    *)
(* working copy leaves the canonical registry as it was.                   *)

C4_Step ==
  \A r \in RegIds :
    (Mutation(r) \/ Discard(r)) =>
      \A other \in DOMAIN states' \ {r} :
        Values(heap', fieldobjs', states', other) = Values(heap, fieldobjs, states, other)

C4_CopyIndependence == [][C4_Step]_vars

\* the canonical registry was mutated after the copy: every scalar, the
\* clock and the buffer of field "a" differ between the two registries
C4_Witness ==
  /\ 2 \in DOMAIN states
  /\ Schema(fieldobjs, states, 1) = Schema(fieldobjs, states, 2)
  /\ Len(states[1].fields_) > 0
  /\ LET v1 == Values(heap, fieldobjs, states, 1)
         v2 == Values(heap, fieldobjs, states, 2)
     IN /\ v1.density # v2.density
        /\ v1.viscosity # v2.viscosity
        /\ v1.gravity # v2.gravity
        /\ v1.time # v2.time
        /\ v1.data # v2.data

-----------------------------------------------------------------------------
(* C5: an assignment between registries with different numbers of fields   *)
(* fails with the incompatibility error and leaves the target, and all it  *)
(* holds, exactly as it was.                                               *)

C5_Step ==
  \A r, from \in RegIds :
    (Assign(r, from) /\ Len(states[r].fields_) # Len(states[from].fields_)) =>
      /\ outcome' = IncompatibleError
      /\ states'[r] = states[r]
      /\ Values(heap', fieldobjs', states', r) = Values(heap, fieldobjs, states, r)
      /\ FieldsOf(fieldobjs', states', r) = FieldsOf(fieldobjs, states, r)

C5_CountMismatchFails == [][C5_Step]_vars

\* a failed assignment between registries whose field counts and scalars differ
C5_Witness ==
  /\ outcome = IncompatibleError
  /\ 2 \in DOMAIN states
  /\ Len(states[1].fields_) # Len(states[2].fields_)
  /\ Values(heap, fieldobjs, states, 1).density # Values(heap, fieldobjs, states, 2).density

-----------------------------------------------------------------------------
(* C6: an assignment between two registries whose field schemas are not    *)
(* identical (the same fields in the same order) fails, also when both     *)
(* hold the same number of fields.                                         *)

C6_Step ==
  \A r, from \in RegIds :
    (Assign(r, from)
       /\ Schema(fieldobjs, states, r) # Schema(fieldobjs, states, from)) =>
      outcome' = IncompatibleError

C6_SchemaMismatchFails == [][C6_Step]_vars

-----------------------------------------------------------------------------
(* Vocabulary of the initialization claims *)

FieldAt(fo, sts, r, i) == fo[sts[r].fields_[i]]

\* a cell-located field whose subfield-name count equals its dof count
Eligible(f) == f.location_ = "CELL" /\ Len(f.subfield_names_) = f.num_dofs_

\* the section holds a "Constant <name>" value for every subfield of f
HoldsAll(section, f) ==
  \A d \in DOMAIN f.subfield_names_ :
    ("Constant " \o f.subfield_names_[d]) \in DOMAIN section

Unassigned(f) == \A e \in DOMAIN f.data_ : \A d \in DOMAIN f.data_[e] : f.data_[e][d] = Unset

FullyAssigned(f) == \A e \in DOMAIN f.data_ : \A d \in DOMAIN f.data_[e] : f.data_[e][d] # Unset

\* initialize() has read the configuration of registry r and is over
Initialized(r) ==
  /\ pc = Idle
  /\ r \in DOMAIN states
  /\ heap[states[r].density_] = <<5>>

\* this step ends an initialize() call on registry r without an exception
InitializeEnds(r) ==
  /\ outcome' = "ok"
  /\ pc' = Idle
  /\ \/ InitializeBegin(r)
     \/ InitializeBlock /\ pc.reg = r

-----------------------------------------------------------------------------
(* C7: a field is marked initialized only if every entry of its buffer has *)
(* been assigned: after initialize() no field is marked initialized while  *)
(* some of its mesh entities have never been given a value.                *)

C7_InitializedMeansAssigned ==
  pc = Idle =>
    \A r \in DOMAIN states : \A i \in DOMAIN states[r].fields_ :
      FieldAt(fieldobjs, states, r, i).initialized_
        => FullyAssigned(FieldAt(fieldobjs, states, r, i))

-----------------------------------------------------------------------------
(* C8: in the global pass and in each block pass, a cell-located field     *)
(* with as many subfield names as dofs for which the section of the pass   *)
(* lacks a "Constant <subfield name>" value is left alone by the pass: no  *)
(* value is written and the initialized flag is not set.                   *)

C8_LeftAlone(r, section) ==
  \A i \in DOMAIN states[r].fields_ :
    LET f == FieldAt(fieldobjs, states, r, i) IN
      (Eligible(f) /\ ~HoldsAll(section, f)) => FieldAt(fieldobjs', states', r, i) = f

C8_Step ==
  /\ \A r \in RegIds :
       InitializeBegin(r) => C8_LeftAlone(r, states[r].parameter_list_.top)
  /\ InitializeBlock =>
       C8_LeftAlone(pc.reg, Sublist(states[pc.reg].parameter_list_, pc.nb))

C8_AllOrNothing == [][C8_Step]_vars

\* initialize() is over; a two-dof cell field whose first constant alone is
\* configured, globally and in a block, is untouched
C8_Witness ==
  /\ Initialized(1)
  /\ outcome = "ok"
  /\ "Constant p" \in DOMAIN states[1].parameter_list_.top
  /\ "Constant q" \notin DOMAIN states[1].parameter_list_.top
  /\ "Constant p" \in DOMAIN Sublist(states[1].parameter_list_, 1)
  /\ "Constant q" \notin DOMAIN Sublist(states[1].parameter_list_, 1)
  /\ \E i \in DOMAIN states[1].fields_ :
       LET f == FieldAt(fieldobjs, states, 1, i) IN
         /\ Eligible(f)
         /\ f.subfield_names_ = <<"p", "q">>
         /\ ~f.initialized_
         /\ Unassigned(f)

-----------------------------------------------------------------------------
(* C9, as stated: check_all_initialized() is false until every cell field  *)
(* with matching subfield count has received a constant assignment, and    *)
(* true as soon as that holds, whatever fields are registered.             *)

AllEligibleAssigned(r) ==
  \A i \in DOMAIN states[r].fields_ :
    Eligible(FieldAt(fieldobjs, states, r, i))
      => ~Unassigned(FieldAt(fieldobjs, states, r, i))

C9_TrueOnceEligibleAssigned ==
  Initialized(1) =>
    (CheckAllInitialized(fieldobjs, states[1]) <=> AllEligibleAssigned(1))

(* C9, amended: check_all_initialized() is true exactly when every         *)
(* registered field is marked initialized. It is false while a cell field  *)
(* with matching subfield count has received no constant assignment, and   *)
(* when every registered field is of that kind it is true as soon as each  *)
(* has received one.                                                       *)

C9_TrueIffAllMarked ==
  pc = Idle =>
    /\ CheckAllInitialized(fieldobjs, states[1])
         <=> \A i \in DOMAIN states[1].fields_ :
               FieldAt(fieldobjs, states, 1, i).initialized_
    /\ ~AllEligibleAssigned(1) => ~CheckAllInitialized(fieldobjs, states[1])
    /\ ( /\ \A i \in DOMAIN states[1].fields_ :
              Eligible(FieldAt(fieldobjs, states, 1, i))
         /\ AllEligibleAssigned(1) )
         => CheckAllInitialized(fieldobjs, states[1])

\* after initialize(), the cell field has its constants and is marked, the
\* face field has none, and check_all_initialized() is false
C9_Witness ==
  /\ Initialized(1)
  /\ Len(states[1].fields_) = 2
  /\ Eligible(FieldAt(fieldobjs, states, 1, 1))
  /\ FieldAt(fieldobjs, states, 1, 1).initialized_
  /\ FieldAt(fieldobjs, states, 1, 2).location_ = "FACE"
  /\ ~FieldAt(fieldobjs, states, 1, 2).initialized_
  /\ AllEligibleAssigned(1)
  /\ ~CheckAllInitialized(fieldobjs, states[1])

-----------------------------------------------------------------------------
(* C10 *)

\* the cells of the block that section nb of the configuration describes
CellsOfSection(plist, nb) ==
  {e \in Entities("CELL") : InBlock(e, plist.blocks[nb]["Mesh block ID"])}

(* C10, as stated: when the configuration holds a global constant v and    *)
(* block b's section a constant w for the same subfield of a cell field    *)
(* with matching subfield names, after initialize() that subfield is w in  *)
(* every cell of block b and v in every cell of no overriding block.       *)

C10_PerSubfield(r) ==
  LET plist == states[r].parameter_list_ IN
  \A i \in DOMAIN states[r].fields_ :
    LET f == FieldAt(fieldobjs, states, r, i)
        now == FieldAt(fieldobjs', states', r, i)
    IN Eligible(f) =>
         \A d \in DOMAIN f.subfield_names_ :
           LET key == "Constant " \o f.subfield_names_[d]
               overriding == {nb \in DOMAIN plist.blocks : key \in DOMAIN plist.blocks[nb]}
           IN (key \in DOMAIN plist.top /\ overriding # {}) =>
                /\ \A nb \in overriding : \A e \in CellsOfSection(plist, nb) :
                     now.data_[e][d] = plist.blocks[nb][key]
                /\ \A e \in Entities("CELL") :
                     (\A nb \in overriding : e \notin CellsOfSection(plist, nb))
                       => now.data_[e][d] = plist.top[key]

C10_OverridePerSubfield ==
  [][\A r \in RegIds : InitializeEnds(r) => C10_PerSubfield(r)]_vars

(* C10, amended: when the configuration holds a global constant and block  *)
(* b's section a constant for every subfield of the field, after           *)
(* initialize() every cell of block b holds the block's values and every   *)
(* cell of no overriding block holds the global values.                    *)

C10_PerField(r) ==
  LET plist == states[r].parameter_list_ IN
  \A i \in DOMAIN states[r].fields_ :
    LET f == FieldAt(fieldobjs, states, r, i)
        now == FieldAt(fieldobjs', states', r, i)
        overriding == {nb \in DOMAIN plist.blocks : HoldsAll(plist.blocks[nb], f)}
    IN (Eligible(f) /\ HoldsAll(plist.top, f) /\ overriding # {}) =>
         \A d \in DOMAIN f.subfield_names_ :
           LET key == "Constant " \o f.subfield_names_[d] IN
             /\ \A nb \in overriding : \A e \in CellsOfSection(plist, nb) :
                  now.data_[e][d] = plist.blocks[nb][key]
             /\ \A e \in Entities("CELL") :
                  (\A nb \in overriding : e \notin CellsOfSection(plist, nb))
                    => now.data_[e][d] = plist.top[key]

C10_OverridePerField ==
  [][\A r \in RegIds : InitializeEnds(r) => C10_PerField(r)]_vars

\* after initialize(), a one-dof cell field holds the block's value in a
\* cell of the block and the global value in a cell of no block
C10_Witness ==
  /\ Initialized(1)
  /\ outcome = "ok"
  /\ \E i \in DOMAIN states[1].fields_ :
       LET f == FieldAt(fieldobjs, states, 1, i) IN
         /\ Eligible(f)
         /\ f.subfield_names_ = <<"p">>
         /\ \E e \in CellsOfSection(states[1].parameter_list_, 1) :
              f.data_[e][1] = ConstValue(1, "p")
         /\ \E e \in Entities("CELL") :
              /\ \A nb \in 1 .. NumBlocks : e \notin CellsOfSection(states[1].parameter_list_, nb)
              /\ f.data_[e][1] = ConstValue(0, "p")

-----------------------------------------------------------------------------
(* The life of the fields of a registry: registration, configuration,      *)
(* writes by their owners, snapshots and rollbacks                         *)

\* the global section alone, or the block sections alone, hold "Constant p";
\* the first block section holds the vector of face field "b"
LifeConfigurations ==
  { MakePList({"p"}, [nb \in 1 .. NumBlocks |-> {}], "full"),
    MakePList({}, [nb \in 1 .. NumBlocks |-> {"p"}], "full") }

InitLife == \E plist \in LifeConfigurations : InitWith(plist, << >>)

\* one field, "b", which either registry may come to hold on cells or faces
NextLife ==
  \/ \E r \in RegIds, loc \in Locations, n \in Dofs :
       RequireField(r, "b", loc, "state", n)
  \/ SetSubfieldNames(1, "b", <<"p">>)
  \/ InitializeBegin(1)
  \/ InitializeBlock
  \/ \E r \in RegIds : SetField(r, "b", 1)
  \/ SetGlobals(2, <<0, 0, 1>>, 2, 3)
  \/ SetVectorField(2, "b", <<1, 0, 0>>, 1)
  \/ CopyConstruct(2, 1)
  \/ \E r, from \in RegIds : Assign(r, from)
  \/ Discard(2)

SpecLife == InitLife /\ [][NextLife]_vars

-----------------------------------------------------------------------------
(* C11: the initialized flag of a field is a one-way latch: no operation   *)
(* on a registry (require_field, set_subfield_names, initialize,           *)
(* set_field, set_vector_field, assignment from a snapshot) takes a field  *)
(* of that registry that is marked initialized to a state in which it is   *)
(* not.                                                                    *)

C11_Step ==
  \A r \in DOMAIN states \cap DOMAIN states' :
    \A i \in DOMAIN states[r].fields_ :
      FieldAt(fieldobjs, states, r, i).initialized_ =>
        /\ i \in DOMAIN states'[r].fields_
        /\ FieldAt(fieldobjs', states', r, i).initialized_

-----------------------------------------------------------------------------
(* C13: the location and the dof count of a field are fixed at creation:   *)
(* no require_field, initialize, set_field, set_vector_field, set_density, *)
(* set_viscosity, set_gravity call and no registry assignment changes the  *)
(* location or the dof count of a field of the registry, and none removes  *)
(* a field.                                                                *)

C13_Step ==
  \A r \in DOMAIN states \cap DOMAIN states' :
    \A i \in DOMAIN states[r].fields_ :
      /\ i \in DOMAIN states'[r].fields_
      /\ FieldAt(fieldobjs', states', r, i).location_
           = FieldAt(fieldobjs, states, r, i).location_
      /\ FieldAt(fieldobjs', states', r, i).num_dofs_
           = FieldAt(fieldobjs, states, r, i).num_dofs_

-----------------------------------------------------------------------------
(* C12: in every reachable state of a registry the name-to-index map and   *)
(* the field collection are consistent: the map has exactly one entry per  *)
(* field, every mapped index is a position of the collection, distinct     *)
(* names map to distinct indices, and the field stored at the index of     *)
(* name n is the field named n.                                            *)

\* the map of s is a one-to-one correspondence of names and positions
MapIsBijection(s) ==
  /\ Cardinality(DOMAIN s.field_name_map_) = Len(s.fields_)
  /\ \A n \in DOMAIN s.field_name_map_ :
       s.field_name_map_[n] \in 0 .. Len(s.fields_) - 1
  /\ \A n, m \in DOMAIN s.field_name_map_ :
       n # m => s.field_name_map_[n] # s.field_name_map_[m]

\* the field found under a name bears that name
MapFindsNamed(fo, s) ==
  \A n \in DOMAIN s.field_name_map_ : fo[GetFieldRecord(s, n)].fieldname_ = n

-----------------------------------------------------------------------------
(* C14: snapshot and rollback. When registries W and C hold the same       *)
(* fields in the same order under the same name map, as they do when W was *)
(* copy-constructed from C and has since undergone value mutations only,   *)
(* the assignment W = C succeeds, makes every field value, global scalar,  *)
(* time and cycle of W equal to C's, changes neither the number, the names *)
(* nor the order of W's fields, and leaves C unchanged.                    *)

C14_Step ==
  \A w, c \in RegIds :
    ( /\ w # c
      /\ Assign(w, c)
      /\ Schema(fieldobjs, states, w) = Schema(fieldobjs, states, c)
      /\ states[w].field_name_map_ = states[c].field_name_map_ ) =>
        /\ outcome' = "ok"
        /\ Values(heap', fieldobjs', states', w) = Values(heap, fieldobjs, states, c)
        /\ Schema(fieldobjs', states', w) = Schema(fieldobjs, states, w)
        /\ states'[w].field_name_map_ = states[w].field_name_map_
        /\ states'[c] = states[c]
        /\ Values(heap', fieldobjs', states', c) = Values(heap, fieldobjs, states, c)
        /\ FieldsOf(fieldobjs', states', c) = FieldsOf(fieldobjs, states, c)

C14_RollbackRoundTrip == [][C14_Step]_vars

\* the working copy holds the canonical registry's two fields and, after
\* the assignment, its values: the scalars, the clock and a written buffer
C14_Witness ==
  /\ outcome = "ok"
  /\ 2 \in DOMAIN states
  /\ Len(states[1].fields_) = 2
  /\ Schema(fieldobjs, states, 2) = Schema(fieldobjs, states, 1)
  /\ states[2].field_name_map_ = states[1].field_name_map_
  /\ Values(heap, fieldobjs, states, 2) = Values(heap, fieldobjs, states, 1)
  /\ Values(heap, fieldobjs, states, 1).density = <<2>>
  /\ Values(heap, fieldobjs, states, 1).cycle = 2
  /\ FullyAssigned(FieldAt(fieldobjs, states, 1, 1))
  /\ Unassigned(FieldAt(fieldobjs, states, 1, 2))

-----------------------------------------------------------------------------
(* C15: once a field has an owner other than "state", no later             *)
(* require_field call on the registry changes its owner: the call leaves   *)
(* the owner as it is, whether it succeeds or fails. Every field has one   *)
(* recorded owner at every moment, so at most one PK ever becomes the      *)
(* owner of a field name.                                                  *)

C15_Step ==
  \A r \in DOMAIN states : \A name \in DOMAIN states[r].field_name_map_ :
    OwnerIn(fieldobjs, states, r, name) # "state" =>
      /\ name \in DOMAIN states'[r].field_name_map_
      /\ OwnerIn(fieldobjs', states', r, name) = OwnerIn(fieldobjs, states, r, name)

C15_OwnerIsFinal ==
  /\ [](\A r \in DOMAIN states : \A name \in DOMAIN states[r].field_name_map_ :
          OwnerIn(fieldobjs, states, r, name) \in Owners)
  /\ [][C15_Step]_vars

\* each of the two fields has its PK, and the last call went through
C15_Witness ==
  /\ outcome = "ok"
  /\ DOMAIN states[1].field_name_map_ = FieldNames
  /\ OwnerIn(fieldobjs, states, 1, "a") = "flow"
  /\ OwnerIn(fieldobjs, states, 1, "b") = "energy"

-----------------------------------------------------------------------------
(* A time step over a registry the sub-PKs write to *)

\* the controllers over the first n PKs, in order
StepSequences == {[i \in 1 .. n |-> i] : n \in 0 .. MaxPKs}

InitStep == \E q \in StepSequences : InitWith(EmptyPList, q)

NextStep ==
  \/ \E name \in FieldNames : RequireField(1, name, "CELL", "state", 1)
  \/ AdvanceCall(1)
  \/ \E f \in BOOLEAN, wrote \in {<< >>} \cup {<<name>> : name \in FieldNames} :
       AdvanceIterWriting(f, wrote)
  \/ AdvanceReturn

SpecStep == InitStep /\ [][NextStep]_vars

-----------------------------------------------------------------------------
(* C16: advance() performs no rollback. What the sub-PKs that succeeded    *)
(* earlier in the call wrote to the registry is still there when a later   *)
(* sub-PK fails and advance() returns failure; advance() itself neither    *)
(* copies, assigns nor restores the registry: the registry changes during  *)
(* the call only by what a sub-PK writes.                                  *)

\* the last call of the log that wrote field name, 0 if none did
LastWriter(log, name) ==
  LET ws == {i \in DOMAIN log : name \in Range(log[i].wrote)} IN
  IF ws = {} THEN 0 ELSE CHOOSE i \in ws : \A j \in ws : j <= i

\* every field a sub-PK of this call wrote holds what its last writer wrote
WritesPresent ==
  \A name \in DOMAIN states[1].field_name_map_ :
    LET i == LastWriter(calls, name) IN
      i # 0 =>
        \A e \in Entities("CELL") :
          fieldobjs[GetFieldRecord(states[1], name)].data_[e][1] = calls[i].pk

C16_Step ==
  /\ (mpc.active \/ mpc'.active) =>
       /\ heap' = heap
       /\ states' = states
       /\ DOMAIN fieldobjs' = DOMAIN fieldobjs
  /\ ((\E dt \in TimeSteps : AdvanceCall(dt)) \/ AdvanceReturn) =>
       fieldobjs' = fieldobjs
  /\ \A f \in BOOLEAN, wrote \in {<< >>} \cup {<<name>> : name \in FieldNames} :
       AdvanceIterWriting(f, wrote) =>
         fieldobjs' = PKAdvance(fieldobjs, states[1], mpc.sub_pks_[mpc.pk], wrote)

C16_NoRollback ==
  /\ [](mpc.returned = "failure" => WritesPresent)
  /\ [][C16_Step]_vars

\* the third sub-PK failed after the first wrote field "a" and the second
\* field "b": advance() has returned failure and both writes are there
C16_Witness ==
  /\ mpc.returned = "failure"
  /\ Len(calls) = 3
  /\ calls[1].wrote = <<"a">>
  /\ calls[2].wrote = <<"b">>
  /\ calls[3].fail
  /\ \A e \in Entities("CELL") :
       /\ fieldobjs[GetFieldRecord(states[1], "a")].data_[e][1] = 1
       /\ fieldobjs[GetFieldRecord(states[1], "b")].data_[e][1] = 2

-----------------------------------------------------------------------------
(* Output of the canonical registry to the visualization collaborator *)

NextVis ==
  \/ \E name \in FieldNames : RequireField(1, name, "CELL", "state", 1)
  \/ \E name \in FieldNames, io_vis \in BOOLEAN : SetIoVis(1, name, io_vis)
  \/ \E name \in FieldNames : SetField(1, name, 1)
  \/ SetSubfieldNames(1, "a", <<"p">>)
  \/ SetClock(1, 1, 2)
  \/ \E dump_requested, is_disabled \in BOOLEAN : WriteVis(1, dump_requested, is_disabled)

SpecVis == InitWith(EmptyPList, << >>) /\ [][NextVis]_vars

-----------------------------------------------------------------------------
(* C17: when dump_requested(cycle) is true and is_disabled() is false,     *)
(* write_vis calls create_timestep(time, cycle) exactly once and first,    *)
(* and then write_vector exactly once per field flagged for output, in     *)
(* field-collection order, with that field's buffer and subfield names,    *)
(* and for no unflagged field; otherwise it calls neither. write_vis never *)
(* changes the registry.                                                   *)

\* the positions of the fields of registry r that are flagged for output
Flagged(r) ==
  {i \in DOMAIN states[r].fields_ : FieldAt(fieldobjs, states, r, i).io_vis_}

C17_Calls(r, dump_requested, is_disabled) ==
  IF dump_requested /\ ~is_disabled
    THEN /\ Len(vis') = 1 + Cardinality(Flagged(r))
         /\ vis'[1] = <<"create_timestep", states[r].time_, states[r].cycle_>>
         /\ \A k \in 2 .. Len(vis') : vis'[k][1] = "write_vector"
         /\ \A i \in Flagged(r) :
              LET k == 1 + Cardinality({j \in Flagged(r) : j <= i}) IN
                /\ vis'[k][2] = FieldAt(fieldobjs, states, r, i).data_
                /\ vis'[k][3] = FieldAt(fieldobjs, states, r, i).subfield_names_
    ELSE vis' = << >>

C17_Step ==
  \A r \in RegIds, dump_requested, is_disabled \in BOOLEAN :
    WriteVis(r, dump_requested, is_disabled) =>
      /\ C17_Calls(r, dump_requested, is_disabled)
      /\ heap' = heap
      /\ fieldobjs' = fieldobjs
      /\ states' = states

C17_WriteVisOrder == [][C17_Step]_vars

\* of two fields the second alone is flagged: the collaborator was given
\* the time step and then the second field's written buffer, nothing else
C17_Witness ==
  /\ Len(states[1].fields_) = 2
  /\ Flagged(1) = {2}
  /\ FullyAssigned(FieldAt(fieldobjs, states, 1, 2))
  /\ Len(vis) = 2
  /\ vis[1] = <<"create_timestep", states[1].time_, states[1].cycle_>>
  /\ vis[2][1] = "write_vector"
  /\ vis[2][2] = FieldAt(fieldobjs, states, 1, 2).data_

-----------------------------------------------------------------------------
(* C18: a require_field call that fails, on a location conflict or on a    *)
(* double-ownership conflict, leaves the registry exactly as it was: no    *)
(* field is created, no owner, location or dof count changes, and the      *)
(* name-to-index map is unchanged.                                         *)

C18_Step ==
  \A r \in RegIds, name \in FieldNames, loc \in Locations, owner \in Owners, n \in Dofs :
    (RequireField(r, name, loc, owner, n) /\ outcome' # "ok") =>
      /\ outcome' \in {LocationError, OwnedError}
      /\ states' = states
      /\ fieldobjs' = fieldobjs
      /\ heap' = heap

C18_FailureChangesNothing == [][C18_Step]_vars

\* a call has failed on the location while the registry holds a field of
\* "state" and a field of a PK
C18_Witness ==
  /\ outcome = LocationError
  /\ DOMAIN states[1].field_name_map_ = FieldNames
  /\ OwnerIn(fieldobjs, states, 1, "a") = "state"
  /\ OwnerIn(fieldobjs, states, 1, "b") = "energy"

-----------------------------------------------------------------------------
(* A registry used by the framework and by one PK: "state" asks for two    *)
(* dofs, the PK for one                                                    *)

NextOnePK ==
  \/ \E name \in FieldNames, loc \in Locations : RequireField(1, name, loc, "state", 2)
  \/ \E name \in FieldNames, loc \in Locations : RequireField(1, name, loc, "flow", 1)

SpecOnePK == InitWith(EmptyPList, << >>) /\ [][NextOnePK]_vars

-----------------------------------------------------------------------------
(* C19: a PK that owns a field cannot require it again as owner: on a      *)
(* field whose owner is Y, other than "state", require_field with owner Y  *)
(* fails with the double-ownership error, whatever the location, and       *)
(* changes nothing; only a request with owner "state" succeeds on a        *)
(* PK-owned field.                                                         *)

C19_Step ==
  \A r \in RegIds, name \in FieldNames, loc \in Locations, owner \in Owners, n \in Dofs :
    ( /\ RequireField(r, name, loc, owner, n)
      /\ name \in DOMAIN states[r].field_name_map_
      /\ OwnerIn(fieldobjs, states, r, name) # "state" ) =>
        /\ owner = OwnerIn(fieldobjs, states, r, name) =>
             /\ outcome' = OwnedError
             /\ fieldobjs' = fieldobjs
             /\ states' = states
        /\ outcome' = "ok" => owner = "state"

C19_OwnerCannotReclaim == [][C19_Step]_vars

\* the only PK there is was turned away with the double-ownership error:
\* it had asked for a field it owns
C19_Witness ==
  /\ outcome = OwnedError
  /\ \E name \in DOMAIN states[1].field_name_map_ :
       OwnerIn(fieldobjs, states, 1, name) = "flow"
  /\ \A name \in DOMAIN states[1].field_name_map_ :
       OwnerIn(fieldobjs, states, 1, name) \in {"state", "flow"}

-----------------------------------------------------------------------------
(* C20: require_field on a name that exists ignores num_dofs: the call     *)
(* does what the call with any other num_dofs does (it succeeds or fails   *)
(* by owner and location alone) and the field keeps the dof count it was   *)
(* created with.                                                           *)

C20_Step ==
  \A r \in RegIds, name \in FieldNames, loc \in Locations, owner \in Owners, n \in Dofs :
    ( /\ RequireField(r, name, loc, owner, n)
      /\ name \in DOMAIN states[r].field_name_map_ ) =>
        /\ fieldobjs'[GetFieldRecord(states'[r], name)].num_dofs_
             = fieldobjs[GetFieldRecord(states[r], name)].num_dofs_
        /\ \A other \in Dofs : RequireField(r, name, loc, owner, other)

C20_DofsIgnored == [][C20_Step]_vars

\* a field "state" created with two dofs went to the PK, which asked for
\* one dof: it still has two
C20_Witness ==
  /\ outcome = "ok"
  /\ \E name \in DOMAIN states[1].field_name_map_ :
       /\ OwnerIn(fieldobjs, states, 1, name) = "flow"
       /\ fieldobjs[GetFieldRecord(states[1], name)].num_dofs_ = 2

====
